---- MODULE Spec2Model ----
(***************************************************************************)
(* The OpenLineage connection manager of the dbt adapter                   *)
(* (integrations/dbt/dbt/adapters/openlineage/connections.py): the run     *)
(* registry (self._meta), the lineage events handed to the OpenLineage     *)
(* client, and the exception boundary around every warehouse call.         *)
(*                                                                         *)
(* Texts (query texts, messages, identifiers) are sequences of symbols.    *)
(* A model's unique_id and a run's uuid are one symbol each; the literal   *)
(* '"node_id": "' of the failure regex and the BigQuery log delimiter are  *)
(* one symbol each.  One connection manager is shared by the threads of    *)
(* Threads; a thread runs one statement of a method at a time.             *)
(***************************************************************************)
EXTENDS Naturals, Sequences, FiniteSets, TLC

VARIABLES hasMeta, meta, events, minted, pc, loc, res, exec

vars == <<hasMeta, meta, events, minted, pc, loc, res, exec>>

----------------------------------------------------------------------------
(* Bounds of the model. *)

\* uuid4 calls (runs begun) in one behaviour
MaxRuns == 2
\* events emitted before new calls stop being made
MaxEvents == 3
\* length of an exception message, in symbols
MaxMsgLen == 3
\* length of a query text, in symbols, where every text is tried
MaxSqlLen == 4

----------------------------------------------------------------------------
(* Symbols of the texts. *)

\* the literal  "node_id": "  of the regex in emit_failed
Marker == "<node_id: dq>"
\* the same literal without its last double quote
MarkerHead == "<node_id: >"
Quote == "<dq>"
NL == "<nl>"
Space == " "
BQ_QUERY_JOB_SPLIT == "-----Query Job SQL Follows-----"
\* the fixed text of the RefreshError branch, up to the two newlines
RefreshGuidance == "Unable to generate access token, ... impersonate.<nl><nl>"

Threads == {"t1", "t2"}

\* model['unique_id'] of the models of the project
ModelIds == {<<"model.a">>, <<"model.b">>}
\* a key no emit_start ever registers
UnknownId == <<"model.zz">>

\* str(uuid.uuid4()): the n-th run identifier minted; uuid4 never repeats
RunIdOf(n) == <<ToString(n)>>
RunIds == {RunIdOf(n) : n \in 1..MaxRuns}

----------------------------------------------------------------------------
(* Text functions. *)

Contains(s, x) == \E i \in 1..Len(s) : s[i] = x

\* index of the first x in s (s holds x)
FirstIndex(s, x) == CHOOSE i \in 1..Len(s) : s[i] = x /\ \A j \in 1..(i-1) : s[j] # x

\* sep.join(parts)
RECURSIVE Join(_, _)
Join(parts, sep) ==
    IF Len(parts) = 0 THEN <<>>
    ELSE IF Len(parts) = 1 THEN parts[1]
    ELSE parts[1] \o <<sep>> \o Join(Tail(parts), sep)

IsWhite(c) == c \in {Space, NL}

\* str.strip(): leading and trailing whitespace removed
RECURSIVE Strip(_)
Strip(s) ==
    IF Len(s) = 0 THEN s
    ELSE IF IsWhite(s[1]) THEN Strip(Tail(s))
    ELSE IF IsWhite(s[Len(s)]) THEN Strip(SubSeq(s, 1, Len(s) - 1))
    ELSE s

\* s.split(BQ_QUERY_JOB_SPLIT)[0]: the text before the first delimiter
SplitHead(s) ==
    IF Contains(s, BQ_QUERY_JOB_SPLIT)
    THEN SubSeq(s, 1, FirstIndex(s, BQ_QUERY_JOB_SPLIT) - 1)
    ELSE s

Backtick == "<bt>"

\* str.replace(backtick, empty): every backtick removed
RECURSIVE StripBackticks(_)
StripBackticks(s) ==
    IF Len(s) = 0 THEN s
    ELSE IF s[1] = Backtick THEN StripBackticks(Tail(s))
    ELSE <<s[1]>> \o StripBackticks(Tail(s))

NoMatch == <<"<no match>">>

\* the end of the line position i is on: '.' matches no newline
LineEnd(sql, i) ==
    IF \E e \in (i+1)..Len(sql) : sql[e] = NL
    THEN (CHOOSE e \in (i+1)..Len(sql) :
              sql[e] = NL /\ \A j \in (i+1)..(e-1) : sql[j] # NL) - 1
    ELSE Len(sql)

\* the positions after marker i, on its line, that end with a double quote
ClosingQuotes(sql, i) ==
    {j \in (i+1)..LineEnd(sql, i) : sql[j] \in {Quote, Marker}}

\* re.search(r'"node_id": "(.*)"', sql): group(1) of the leftmost match, the
\* greedy '.*' running to the last double quote of the line; NoMatch for None
NodeIdSearch(sql) ==
    LET starts == {i \in 1..Len(sql) : sql[i] = Marker /\ ClosingQuotes(sql, i) # {}}
    IN  IF starts = {} THEN NoMatch
        ELSE LET i == CHOOSE a \in starts : \A b \in starts : a <= b
                 j == CHOOSE a \in ClosingQuotes(sql, i) :
                          \A b \in ClosingQuotes(sql, i) : b <= a
             IN  SubSeq(sql, i + 1, j - 1)
                 \o (IF sql[j] = Marker THEN <<MarkerHead>> ELSE <<>>)

----------------------------------------------------------------------------
(* Records. *)

\* RunMeta(run_id, namespace, name)
RunMeta(run_id, namespace, name) ==
    [run_id |-> run_id, namespace |-> namespace, name |-> name]

NoMeta == RunMeta(<<>>, <<>>, <<>>)

\* the model dictionary handed to emit_start: unique_id, fqn[0], relation_name
Models ==
    {[unique_id |-> u, fqn0 |-> <<"proj">>, relation_name |-> <<Backtick, "ds.tbl", Backtick>>] :
        u \in ModelIds}

\* RunEvent(eventType, run, job, inputs, outputs); facets: the job carries
\* the sourceCodeLocation and sql facets
RunEvent(eventType, runId, namespace, name, facets, inputs, outputs) ==
    [eventType |-> eventType, runId |-> runId, namespace |-> namespace,
     name |-> name, facets |-> facets, inputs |-> inputs, outputs |-> outputs]

\* an exception: its class, str(e), and e.errors (a list of messages)
Exc(cls, msg, errors) == [cls |-> cls, msg |-> msg, errors |-> errors]

NoExc == Exc("none", <<>>, <<>>)

\* what leaves a method by raise: the exception, and whether it is the very
\* object that was raised inside the boundary
Raised(cls, msg, same) == [cls |-> cls, msg |-> msg, same |-> same]

NoRaised == Raised("none", <<>>, FALSE)

\* the locals of the method a thread is in
NoFrame ==
    [unique_id |-> <<>>, namespace |-> <<>>, relation |-> <<>>, run_id |-> <<>>,
     inputs |-> <<>>, exc |-> NoExc, m |-> NoMeta,
     embedded |-> FALSE, marked |-> FALSE,
     parsed |-> <<>>, key |-> <<>>, token |-> NoMatch]

\* how the last call of a thread ended: the method, "return" or "raise", the
\* value returned or the exception raised; for exception_handler also the
\* exception raised inside it, the RunMeta emit_failed resolved, whether the
\* query text embedded a registered token (as its one marker; in any of its
\* markers), and whether a FAIL event of that run was in the event stream
\* when the error left the boundary; for emit_start what the parser yielded;
\* for a lookup the key that was looked up, and the token of the text's marker
NoRes ==
    [op |-> "none", outcome |-> "none", unique_id |-> <<>>, run_id |-> <<>>,
     raised |-> NoRaised, exc |-> NoExc, m |-> NoMeta,
     embedded |-> FALSE, marked |-> FALSE, recovered |-> FALSE,
     failFirst |-> FALSE,
     parsed |-> <<>>, key |-> <<>>, token |-> NoMatch]

----------------------------------------------------------------------------
(* The exception classes and the except clauses of exception_handler. *)

ExcClasses ==
    {"BadRequest", "Forbidden", "RefreshError", "RuntimeException",
     "DatabaseException", "Exception", "KeyboardInterrupt"}

\* isinstance(e, Exception): KeyboardInterrupt derives from BaseException only
IsException(cls) == cls # "KeyboardInterrupt"

\* isinstance(e, RuntimeException): DatabaseException is a subclass of it
IsRuntimeException(cls) == cls \in {"RuntimeException", "DatabaseException"}

\* handle_error: the messages of error.errors joined by newlines, raised as
\* a DatabaseException
handle_error(e) == Raised("DatabaseException", Join(e.errors, NL), FALSE)

\* RuntimeMessage with the text after the last delimiter kept: split(...)[-1]
RuntimeMessageLastPart(exc_message) ==
    IF Contains(exc_message, BQ_QUERY_JOB_SPLIT)
    THEN Strip(SubSeq(exc_message,
                      (CHOOSE i \in 1..Len(exc_message) :
                          /\ exc_message[i] = BQ_QUERY_JOB_SPLIT
                          /\ \A j \in (i+1)..Len(exc_message) :
                                exc_message[j] # BQ_QUERY_JOB_SPLIT) + 1,
                      Len(exc_message)))
    ELSE exc_message

\* the message of the RuntimeException built for any other exception
RuntimeMessage(exc_message) ==
    IF Contains(exc_message, BQ_QUERY_JOB_SPLIT)
    THEN Strip(SplitHead(exc_message))
    ELSE exc_message

\* what the matching except clause raises once emit_failed has returned
Classify(e) ==
    IF e.cls \in {"BadRequest", "Forbidden"} THEN handle_error(e)
    ELSE IF e.cls = "RefreshError"
         THEN Raised("RuntimeException", <<RefreshGuidance>> \o e.msg, FALSE)
    ELSE IF IsRuntimeException(e.cls) THEN Raised(e.cls, e.msg, TRUE)
    ELSE Raised("RuntimeException", RuntimeMessage(e.msg), FALSE)

----------------------------------------------------------------------------
(* The registry self._meta and the event stream. *)

\* hasattr(self, '_meta') and the keys of the dictionary
RegistryKeys == IF hasMeta THEN DOMAIN meta ELSE {}

\* self._meta[key] = value
Put(d, key, value) ==
    [k \in (DOMAIN d) \cup {key} |-> IF k = key THEN value ELSE d[k]]

EmptyDict == [k \in {} |-> NoMeta]

\* self.get_openlineage_client().emit(event)
Emit(event) == events' = Append(events, event)

Idle(t) == pc[t] = "idle"

\* new calls are made while the bounds leave room for their events
Room == Len(events) < MaxEvents

Goto(t, label) == pc' = [pc EXCEPT ![t] = label]

\* the method ends: its result is with the caller
Finish(t, r) == /\ pc' = [pc EXCEPT ![t] = "returned"]
                /\ res' = [res EXCEPT ![t] = r]
                /\ loc' = [loc EXCEPT ![t] = NoFrame]

Returned(t) == pc[t] = "returned"

\* the caller goes on with the result or the exception it got
Resume(t) ==
    /\ Returned(t)
    /\ pc' = [pc EXCEPT ![t] = "idle"]
    /\ res' = [res EXCEPT ![t] = NoRes]
    /\ UNCHANGED <<hasMeta, meta, events, minted, loc, exec>>

----------------------------------------------------------------------------
(* emit_start *)

ParseFailed == <<"<parse failed>">>

\* what SqlParser.parse yields for model['compiled_sql']: it raises, or
\* names the input tables
ParseOutcomes == {ParseFailed, <<>>, <<"ds.src">>}

\* CallEmitStart with the parser's exception leaving emit_start
CallEmitStartAborting(t, model, parsed) ==
    /\ Idle(t) /\ Room /\ minted < MaxRuns
    /\ minted' = minted + 1
    /\ IF parsed = ParseFailed
       THEN Finish(t, [NoRes EXCEPT !.op = "emit_start", !.outcome = "raise",
                                   !.unique_id = model.unique_id,
                                   !.parsed = parsed,
                                   !.raised = Raised("Exception", <<"parse">>, TRUE)])
       ELSE /\ loc' = [loc EXCEPT ![t] =
                        [NoFrame EXCEPT !.unique_id = model.unique_id,
                                        !.namespace = model.fqn0,
                                        !.relation = model.relation_name,
                                        !.run_id = RunIdOf(minted + 1),
                                        !.parsed = parsed,
                                        !.inputs = parsed]]
            /\ res' = res
            /\ Goto(t, "es_hasattr")
    /\ UNCHANGED <<hasMeta, meta, events>>

\* lines 72-83: the run id is minted and the inputs are extracted
CallEmitStart(t, model, parsed) ==
    /\ Idle(t) /\ Room /\ minted < MaxRuns
    /\ minted' = minted + 1
    /\ loc' = [loc EXCEPT ![t] =
                 [NoFrame EXCEPT !.unique_id = model.unique_id,
                                 !.namespace = model.fqn0,
                                 !.relation = model.relation_name,
                                 !.run_id = RunIdOf(minted + 1),
                                 !.parsed = parsed,
                                 !.inputs = IF parsed = ParseFailed THEN <<>>
                                            ELSE parsed]]
    /\ res' = res
    /\ Goto(t, "es_hasattr")
    /\ UNCHANGED <<hasMeta, meta, events>>

\* line 86: if not hasattr(self, '_meta')
EsHasattr(t) ==
    /\ pc[t] = "es_hasattr"
    /\ Goto(t, IF hasMeta THEN "es_put_model" ELSE "es_create")
    /\ UNCHANGED <<hasMeta, meta, events, minted, loc, res, exec>>

\* line 87: self._meta = dict()
EsCreate(t) ==
    /\ pc[t] = "es_create"
    /\ hasMeta' = TRUE
    /\ meta' = EmptyDict
    /\ Goto(t, "es_put_model")
    /\ UNCHANGED <<events, minted, loc, res, exec>>

\* lines 88-93: the RunMeta is built and stored under the model's unique_id
EsPutModel(t) ==
    /\ pc[t] = "es_put_model"
    /\ LET m == RunMeta(loc[t].run_id, loc[t].namespace, loc[t].unique_id)
       IN  /\ meta' = Put(meta, loc[t].unique_id, m)
           /\ loc' = [loc EXCEPT ![t].m = m]
    /\ Goto(t, "es_put_run")
    /\ UNCHANGED <<hasMeta, events, minted, res, exec>>

\* line 94: the same RunMeta is stored under the run id
EsPutRun(t) ==
    /\ pc[t] = "es_put_run"
    /\ meta' = Put(meta, loc[t].run_id, loc[t].m)
    /\ Goto(t, "es_emit")
    /\ UNCHANGED <<hasMeta, events, minted, loc, res, exec>>

\* the START event of lines 98-123
StartEvent(f) ==
    RunEvent("START", f.run_id, f.m.namespace, f.m.name, TRUE,
             f.inputs, <<StripBackticks(f.relation)>>)

\* lines 96-125: the START event is emitted and the run id returned
EsEmit(t) ==
    /\ pc[t] = "es_emit"
    /\ Emit(StartEvent(loc[t]))
    /\ Finish(t, [NoRes EXCEPT !.op = "emit_start", !.outcome = "return",
                               !.unique_id = loc[t].unique_id,
                               !.parsed = loc[t].parsed,
                               !.run_id = loc[t].run_id, !.m = loc[t].m])
    /\ UNCHANGED <<hasMeta, meta, minted, exec>>

----------------------------------------------------------------------------
(* emit_complete *)

AttributeError(what) == Raised("AttributeError", <<what>>, FALSE)
KeyError(key) == Raised("KeyError", key, FALSE)

\* Lookup resolving a missing key to some record the registry holds
LookupStale(key) ==
    IF ~hasMeta THEN [found |-> FALSE, m |-> NoMeta, raised |-> AttributeError("_meta")]
    ELSE IF key \in DOMAIN meta
         THEN [found |-> TRUE, m |-> meta[key], raised |-> NoRaised]
    ELSE IF DOMAIN meta # {}
         THEN [found |-> TRUE, m |-> meta[CHOOSE k \in DOMAIN meta : TRUE],
               raised |-> NoRaised]
    ELSE [found |-> FALSE, m |-> NoMeta, raised |-> KeyError(key)]

\* self._meta[key]: the RunMeta found, or the exception of the lookup
Lookup(key) ==
    IF ~hasMeta THEN [found |-> FALSE, m |-> NoMeta, raised |-> AttributeError("_meta")]
    ELSE IF key \notin DOMAIN meta
         THEN [found |-> FALSE, m |-> NoMeta, raised |-> KeyError(key)]
    ELSE [found |-> TRUE, m |-> meta[key], raised |-> NoRaised]

\* line 128: meta = self._meta[run_id]
CallEmitComplete(t, run_id) ==
    /\ Idle(t) /\ Room
    /\ LET l == Lookup(run_id)
       IN  IF l.found
           THEN /\ loc' = [loc EXCEPT ![t] = [NoFrame EXCEPT !.run_id = run_id,
                                                              !.key = run_id,
                                                              !.m = l.m]]
                /\ res' = res
                /\ Goto(t, "ec_emit")
           ELSE Finish(t, [NoRes EXCEPT !.op = "emit_complete", !.outcome = "raise",
                                       !.run_id = run_id, !.key = run_id,
                                       !.raised = l.raised])
    /\ UNCHANGED <<hasMeta, meta, events, minted>>

\* the COMPLETE event of lines 129-137
CompleteEvent(f) ==
    RunEvent("COMPLETE", f.run_id, f.m.namespace, f.m.name, FALSE, <<>>, <<>>)

\* lines 129-138: the COMPLETE event is emitted
EcEmit(t) ==
    /\ pc[t] = "ec_emit"
    /\ Emit(CompleteEvent(loc[t]))
    /\ Finish(t, [NoRes EXCEPT !.op = "emit_complete", !.outcome = "return",
                               !.run_id = loc[t].run_id, !.key = loc[t].key,
                               !.m = loc[t].m])
    /\ UNCHANGED <<hasMeta, meta, minted, exec>>

----------------------------------------------------------------------------
(* emit_failed and exception_handler *)

\* a marker of the query text reads  "node_id": "<key>"
HasMarkerFor(sql, key) ==
    \E i \in 1..Len(sql) :
        /\ sql[i] = Marker
        /\ i + Len(key) + 1 <= Len(sql)
        /\ SubSeq(sql, i + 1, i + Len(key)) = key
        /\ sql[i + Len(key) + 1] = Quote

\* the query text holds one marker, and it reads  "node_id": "<key>"
EmbedsToken(sql, key) ==
    /\ Cardinality({i \in 1..Len(sql) : sql[i] = Marker}) = 1
    /\ HasMarkerFor(sql, key)

\* the token of the query text's marker: the text holds one marker, of the
\* form  "node_id": "<token>"  with a token free of double quotes
MarkerToken(sql) ==
    LET at == {i \in 1..Len(sql) : sql[i] = Marker}
    IN  IF Cardinality(at) # 1 THEN NoMatch
        ELSE LET i == CHOOSE a \in at : TRUE
             IN  IF /\ i + 2 <= Len(sql)
                    /\ sql[i + 1] \notin {Quote, NL}
                    /\ sql[i + 2] = Quote
                 THEN <<sql[i + 1]>>
                 ELSE NoMatch

\* the one marker of the query text names a token the registry resolves
EmbedsRegistered(sql) == \E key \in RegistryKeys : EmbedsToken(sql, key)

\* some marker of the query text names a token the registry resolves
MarksRegistered(sql) == \E key \in RegistryKeys : HasMarkerFor(sql, key)

\* RecoverRun falling back to some registered run when the key is not found
RecoverRunFallback(sql) ==
    LET key == NodeIdSearch(sql)
    IN  IF ~hasMeta THEN Lookup(key)
        ELSE IF key \in DOMAIN meta THEN Lookup(key)
        ELSE IF DOMAIN meta # {} THEN Lookup(CHOOSE k \in DOMAIN meta : TRUE)
        ELSE Lookup(key)

\* lines 141-144: the regex search and the registry lookup of emit_failed;
\* with no match, None.group raises AttributeError after the error is logged
RecoverRun(sql) ==
    LET key == NodeIdSearch(sql)
    IN  IF ~hasMeta THEN Lookup(key)
        ELSE IF key = NoMatch
             THEN [found |-> FALSE, m |-> NoMeta, raised |-> AttributeError("group")]
        ELSE Lookup(key)

\* FailEvent asserting the job's dataset as an output again
FailEventWithOutputs(m) ==
    RunEvent("FAIL", m.run_id, m.namespace, m.name, FALSE, <<>>, <<m.name>>)

\* the FAIL event of lines 146-154
FailEvent(m) ==
    RunEvent("FAIL", m.run_id, m.namespace, m.name, FALSE, <<>>, <<>>)

\* lines 159-160: the wrapped call returns, and so does the boundary
ExceptionHandlerOk(t, sql) ==
    /\ Idle(t)
    /\ Finish(t, [NoRes EXCEPT !.op = "exception_handler", !.outcome = "return"])
    /\ UNCHANGED <<hasMeta, meta, events, minted>>

\* lines 159-183 and 141-144: the wrapped call raises e; an except clause
\* catches it (none catches a BaseException) and calls emit_failed(sql),
\* which searches the text and looks the key up
ExceptionHandlerRaise(t, sql, e) ==
    /\ Idle(t) /\ Room
    /\ LET r == RecoverRun(sql)
           done == [NoRes EXCEPT !.op = "exception_handler", !.outcome = "raise",
                                 !.exc = e, !.embedded = EmbedsRegistered(sql),
                                 !.marked = MarksRegistered(sql),
                                 !.key = NodeIdSearch(sql),
                                 !.token = MarkerToken(sql)]
       IN  IF ~IsException(e.cls)
           THEN Finish(t, [done EXCEPT !.raised = Raised(e.cls, e.msg, TRUE)])
           ELSE IF ~r.found
           THEN Finish(t, [done EXCEPT !.raised = r.raised])
           ELSE /\ loc' = [loc EXCEPT ![t] =
                            [NoFrame EXCEPT !.exc = e, !.m = r.m,
                                            !.embedded = EmbedsRegistered(sql),
                                            !.marked = MarksRegistered(sql),
                                            !.key = NodeIdSearch(sql),
                                            !.token = MarkerToken(sql)]]
                /\ res' = res
                /\ Goto(t, "ef_emit")
    /\ UNCHANGED <<hasMeta, meta, events, minted>>

\* lines 145-155: emit_failed emits the FAIL event of the resolved run
EfEmit(t) ==
    /\ pc[t] = "ef_emit"
    /\ Emit(FailEvent(loc[t].m))
    /\ Goto(t, "eh_raise")
    /\ UNCHANGED <<hasMeta, meta, minted, loc, res, exec>>

\* a FAIL event of the run is in the event stream
FailEmitted(run_id) ==
    \E i \in 1..Len(events) :
        events[i].eventType = "FAIL" /\ events[i].runId = run_id

\* EhRaise with the RefreshError clause ending without its raise
EhRaiseSwallowing(t) ==
    /\ pc[t] = "eh_raise"
    /\ Finish(t, [NoRes EXCEPT !.op = "exception_handler",
                               !.outcome = IF loc[t].exc.cls = "RefreshError"
                                           THEN "return" ELSE "raise",
                               !.exc = loc[t].exc, !.m = loc[t].m,
                               !.embedded = loc[t].embedded,
                               !.marked = loc[t].marked,
                               !.key = loc[t].key, !.token = loc[t].token,
                               !.recovered = TRUE,
                               !.failFirst = FailEmitted(loc[t].m.run_id),
                               !.raised = IF loc[t].exc.cls = "RefreshError"
                                          THEN NoRaised ELSE Classify(loc[t].exc)])
    /\ UNCHANGED <<hasMeta, meta, events, minted, exec>>

\* lines 164-196: the except clause raises the classified error
EhRaise(t) ==
    /\ pc[t] = "eh_raise"
    /\ Finish(t, [NoRes EXCEPT !.op = "exception_handler", !.outcome = "raise",
                               !.exc = loc[t].exc, !.m = loc[t].m,
                               !.embedded = loc[t].embedded,
                               !.marked = loc[t].marked,
                               !.key = loc[t].key, !.token = loc[t].token,
                               !.recovered = TRUE,
                               !.failFirst = FailEmitted(loc[t].m.run_id),
                               !.raised = Classify(loc[t].exc)])
    /\ UNCHANGED <<hasMeta, meta, events, minted, exec>>

----------------------------------------------------------------------------
(* The calls the host makes: arguments, query texts and exceptions. *)

\* the tokens a query text may carry: model ids, run ids, an unknown id
Tokens == {k[1] : k \in ModelIds \cup RunIds \cup {UnknownId}}

\* query texts: no marker; a marker ending its line; a marker followed by
\* another quoted string on its line; a marker that is never closed
Sqls ==
    {<<"select 1">>}
    \cup {<<Marker, k, Quote, NL, "select 1">> : k \in Tokens}
    \cup {<<Marker, k, Quote, ", ", Quote, "dev", Quote, NL, "select 1">> : k \in Tokens}
    \cup {<<Marker, k, NL, "select 1">> : k \in Tokens}

\* the exceptions a warehouse call raises, one or two of every class
Excs ==
    { Exc("BadRequest", <<"400">>, << <<"bad">>, <<"syntax">> >>),
      Exc("Forbidden", <<"403">>, << <<"denied">> >>),
      Exc("RefreshError", <<"refresh">>, <<>>),
      Exc("RuntimeException", <<"dbt", BQ_QUERY_JOB_SPLIT, "log">>, <<>>),
      Exc("DatabaseException", <<"db">>, <<>>),
      Exc("Exception", <<"boom">>, <<>>),
      Exc("Exception", <<"boom", Space, BQ_QUERY_JOB_SPLIT, "log">>, <<>>),
      Exc("KeyboardInterrupt", <<>>, <<>>) }

NoExec == [stage |-> "new", unique_id |-> <<>>, run_id |-> <<>>]

Init ==
    /\ hasMeta = FALSE
    /\ meta = EmptyDict
    /\ events = <<>>
    /\ minted = 0
    /\ pc = [t \in Threads |-> "idle"]
    /\ loc = [t \in Threads |-> NoFrame]
    /\ res = [t \in Threads |-> NoRes]
    /\ exec = [t \in Threads |-> NoExec]

(* Any method may be called at any time, with any argument. *)

EmitStart(t, models, outcomes) ==
    /\ \E model \in models, parsed \in outcomes : CallEmitStart(t, model, parsed)
    /\ UNCHANGED exec

EmitComplete(t) ==
    /\ \E run_id \in RunIds : CallEmitComplete(t, run_id)
    /\ UNCHANGED exec

QueryOk(t, sqls) ==
    /\ \E sql \in sqls : ExceptionHandlerOk(t, sql)
    /\ UNCHANGED exec

QueryRaise(t, sqls, excs) ==
    /\ \E sql \in sqls, e \in excs : ExceptionHandlerRaise(t, sql, e)
    /\ UNCHANGED exec

\* the statements inside the methods
Step(t) ==
    \/ EsHasattr(t)
    \/ EsCreate(t)
    \/ EsPutModel(t)
    \/ EsPutRun(t)
    \/ EsEmit(t)
    \/ EcEmit(t)
    \/ EfEmit(t)
    \/ EhRaise(t)
    \/ Resume(t)

\* the calls of one thread: each method runs to its end before the next call
Next ==
    \E t \in {"t1"} :
        \/ EmitStart(t, Models, ParseOutcomes)
        \/ EmitComplete(t)
        \/ QueryOk(t, Sqls)
        \/ QueryRaise(t, Sqls, Excs)
        \/ Step(t)

Spec == Init /\ [][Next]_vars

(* The threads of a dbt run share the connection manager: their calls *)
(* interleave statement by statement.                                  *)

ConcSqls == {<<Marker, k, Quote, NL, "select 1">> : k \in Tokens}

ConcExcs == {Exc("Exception", <<"boom">>, <<>>)}

NextConc ==
    \E t \in Threads :
        \/ EmitStart(t, Models, {ParseFailed})
        \/ EmitComplete(t)
        \/ QueryOk(t, ConcSqls)
        \/ QueryRaise(t, ConcSqls, ConcExcs)
        \/ Step(t)

SpecConc == Init /\ [][NextConc]_vars

(* One execution of a model per thread, as the host runs it: emit_start,  *)
(* then the warehouse calls inside the boundary, then emit_complete after  *)
(* the last call returned, or nothing more after a call raised.  The query *)
(* texts of an execution carry its own model id or run id, or no marker.   *)

ExecSqls(x) ==
    {<<"select 1">>}
    \cup {<<Marker, k[1], Quote, NL, "select 1">> : k \in {x.unique_id, x.run_id}}
    \cup {<<Marker, x.unique_id[1], Quote, ", ", Quote, "dev", Quote, NL, "select 1">>}

ExecExcs ==
    { Exc("Forbidden", <<"403">>, << <<"denied">> >>),
      Exc("Exception", <<"boom">>, <<>>),
      Exc("KeyboardInterrupt", <<>>, <<>>) }

ExecBegin(t) ==
    /\ exec[t].stage = "new"
    /\ \E model \in Models :
          /\ \A u \in Threads : exec[u].unique_id # model.unique_id
          /\ CallEmitStart(t, model, ParseFailed)
          /\ exec' = [exec EXCEPT ![t] = [stage |-> "started",
                                          unique_id |-> model.unique_id,
                                          run_id |-> RunIdOf(minted + 1)]]

ExecQueryOk(t) ==
    /\ exec[t].stage = "started"
    /\ \E sql \in ExecSqls(exec[t]) : ExceptionHandlerOk(t, sql)
    /\ UNCHANGED exec

ExecQueryRaise(t) ==
    /\ exec[t].stage = "started"
    /\ \E sql \in ExecSqls(exec[t]), e \in ExecExcs : ExceptionHandlerRaise(t, sql, e)
    /\ exec' = [exec EXCEPT ![t].stage = "failed"]

ExecComplete(t) ==
    /\ exec[t].stage = "started"
    /\ CallEmitComplete(t, exec[t].run_id)
    /\ exec' = [exec EXCEPT ![t].stage = "completed"]

NextExec ==
    \E t \in Threads :
        \/ ExecBegin(t)
        \/ ExecQueryOk(t)
        \/ ExecQueryRaise(t)
        \/ ExecComplete(t)
        \/ Step(t)

SpecExec == Init /\ [][NextExec]_vars

(* The messages of the exceptions: every text of up to MaxMsgLen symbols. *)

MsgSymbols == {"boom", Space, BQ_QUERY_JOB_SPLIT}

RECURSIVE TextsOfLen(_, _)
TextsOfLen(symbols, n) ==
    IF n = 0 THEN {<<>>}
    ELSE {<<c>> \o s : c \in symbols, s \in TextsOfLen(symbols, n - 1)}

Msgs == UNION {TextsOfLen(MsgSymbols, n) : n \in 0..MaxMsgLen}

ErrorLists ==
    {<<>>} \cup {<<a>> : a \in TextsOfLen({"bad", "syntax"}, 1)}
    \cup {<<a, b>> : a \in TextsOfLen({"bad", "syntax"}, 1),
                     b \in TextsOfLen({"bad", "syntax"}, 1)}

MsgExcs ==
    {Exc(cls, msg, <<>>) :
        cls \in {"Exception", "DatabaseException", "RefreshError"}, msg \in Msgs}
    \cup {Exc(cls, <<>>, errs) : cls \in {"BadRequest", "Forbidden"}, errs \in ErrorLists}

MsgSqls == {<<"select 1">>, <<Marker, "model.a", Quote, NL, "select 1">>}

NextMsg ==
    \E t \in {"t1"} :
        \/ EmitStart(t, {model \in Models : model.unique_id = <<"model.a">>}, {ParseFailed})
        \/ EmitComplete(t)
        \/ QueryRaise(t, MsgSqls, MsgExcs)
        \/ Step(t)

SpecMsg == Init /\ [][NextMsg]_vars

(* The query texts: every text of up to MaxSqlLen symbols. *)

SqlSymbols == {Marker, Quote, NL, "model.a", "1", "model.zz"}

AllSqls == UNION {TextsOfLen(SqlSymbols, n) : n \in 0..MaxSqlLen}

SqlExcs ==
    { Exc("Forbidden", <<"403">>, << <<"denied">> >>),
      Exc("Exception", <<"boom">>, <<>>) }

NextSql ==
    \E t \in {"t1"} :
        \/ EmitStart(t, {model \in Models : model.unique_id = <<"model.a">>}, {ParseFailed})
        \/ QueryRaise(t, AllSqls, SqlExcs)
        \/ EsHasattr(t)
        \/ EsCreate(t)
        \/ EsPutModel(t)
        \/ EsPutRun(t)
        \/ EsEmit(t)
        \/ EfEmit(t)
        \/ EhRaise(t)
        \/ Resume(t)

SpecSql == Init /\ [][NextSql]_vars

(* The registry under load: every thread begins models, while one thread *)
(* also completes runs and has warehouse calls fail.                      *)

RegSqls == {<<Marker, k, Quote, NL, "select 1">> : k \in {"model.a", "1", "model.zz"}}

NextReg ==
    \/ \E t \in Threads :
          \/ EmitStart(t, Models, {ParseFailed})
          \/ Step(t)
    \/ \E t \in {"t1"} :
          \/ EmitComplete(t)
          \/ QueryRaise(t, RegSqls, ConcExcs)

SpecReg == Init /\ [][NextReg]_vars

----------------------------------------------------------------------------
(* Properties. *)

\* the number of emitted events of a type that carry a run identifier
CountEvents(eventType, run_id) ==
    Cardinality({i \in 1..Len(events) :
                    events[i].eventType = eventType /\ events[i].runId = run_id})

\* thread t's last call was exception_handler, and an exception was raised
\* inside it
FailedInvocation(t) ==
    Returned(t) /\ res[t].op = "exception_handler" /\ res[t].exc # NoExc

\* the error that left the boundary is the classified error of the class of
\* the exception raised inside it
ClassifiedFor(exc, raised) ==
    IF exc.cls \in {"BadRequest", "Forbidden"}
    THEN raised.cls = "DatabaseException" /\ ~raised.same
    ELSE IF exc.cls = "RefreshError"
         THEN raised.cls = "RuntimeException" /\ ~raised.same
    ELSE IF exc.cls \in {"RuntimeException", "DatabaseException"}
         THEN raised.cls = exc.cls /\ raised.same
    ELSE raised.cls = "RuntimeException" /\ ~raised.same

\* C1: a failing execution whose query text embeds a token the registry
\* resolves ends with exactly one START and exactly one FAIL event of its
\* run, the FAIL event emitted before the classified error reaches the caller.
C1_FailBeforeClassifiedError ==
    \A t \in Threads :
        (Returned(t) /\ exec[t].stage = "failed" /\ res[t].embedded) =>
            /\ CountEvents("START", exec[t].run_id) = 1
            /\ CountEvents("FAIL", exec[t].run_id) = 1
            /\ res[t].failFirst
            /\ res[t].outcome = "raise"
            /\ ClassifiedFor(res[t].exc, res[t].raised)

\* C2: when the token is missing from the query text or does not resolve,
\* the error that leaves the boundary is still the classified error of the
\* original exception's class.
C2_ClassifiedWithoutToken ==
    \A t \in Threads :
        (FailedInvocation(t) /\ ~res[t].marked) =>
            /\ res[t].outcome = "raise"
            /\ ClassifiedFor(res[t].exc, res[t].raised)

\* an invocation of the boundary that ended in the step it was entered in
EndsAtOnce(t) ==
    /\ Idle(t) /\ pc'[t] = "returned"
    /\ res'[t].op = "exception_handler"

\* C3: a failing invocation whose query text has no marker naming a token
\* the registry resolves emits no FAIL event: it ends at once with the event
\* stream as it was, and only an invocation whose text named a registered
\* token goes on to the emission of the FAIL event.
C3_NoFailWithoutToken ==
    /\ [](\A t \in Threads : pc[t] \in {"ef_emit", "eh_raise"} => loc[t].marked)
    /\ [][\A t \in Threads :
            (EndsAtOnce(t) /\ ~res'[t].marked) => events' = events]_vars
    /\ [][\A i \in (Len(events) + 1)..Len(events') :
            events'[i].eventType = "FAIL" =>
                \E t \in Threads : /\ pc[t] = "ef_emit"
                                   /\ loc[t].marked
                                   /\ events'[i].runId = loc[t].m.run_id]_vars

\* C3 witness: an exception was caught with no registered token in the text
C3_Witness ==
    \E t \in Threads :
        /\ FailedInvocation(t) /\ ~res[t].marked
        /\ res[t].exc.cls = "Forbidden"
        /\ hasMeta /\ DOMAIN meta # {}
        /\ res[t].raised.cls = "KeyError"

\* C4: no run has two terminal events (COMPLETE or FAIL) in the event stream.
C4_OneTerminalEventPerRun ==
    \A r \in RunIds : CountEvents("COMPLETE", r) + CountEvents("FAIL", r) <= 1

\* C5: once two emit_start calls for two different models have both returned,
\* their run ids differ and each model id and each run id resolves to the
\* RunMeta of its own call.
C5_ConcurrentBeginsKeepBoth ==
    \A t \in Threads, u \in Threads :
        ( /\ t # u /\ Returned(t) /\ Returned(u)
          /\ res[t].op = "emit_start" /\ res[u].op = "emit_start"
          /\ res[t].unique_id # res[u].unique_id ) =>
            /\ res[t].run_id # res[u].run_id
            /\ hasMeta
            /\ {res[t].unique_id, res[t].run_id} \subseteq DOMAIN meta
            /\ meta[res[t].unique_id] = res[t].m
            /\ meta[res[t].run_id] = res[t].m
            /\ res[t].m.run_id = res[t].run_id

\* the positions of the events of a type that carry a run identifier
Positions(eventType, run_id) ==
    {i \in 1..Len(events) :
        events[i].eventType = eventType /\ events[i].runId = run_id}

\* C6: a successful execution ends with exactly one START and exactly one
\* COMPLETE event of its run, START first, and no FAIL event of its run.
C6_StartThenComplete ==
    \A t \in Threads :
        (Returned(t) /\ exec[t].stage = "completed") =>
            /\ res[t].outcome = "return"
            /\ CountEvents("START", exec[t].run_id) = 1
            /\ CountEvents("COMPLETE", exec[t].run_id) = 1
            /\ CountEvents("FAIL", exec[t].run_id) = 0
            /\ \A i \in Positions("START", exec[t].run_id),
                  j \in Positions("COMPLETE", exec[t].run_id) : i < j

\* C7: an exception raised inside the boundary always leaves it as a raised
\* exception; a wrapped call that returns makes the boundary return, with no
\* event emitted and the registry as it was.
C7_NeverSwallowsSilentOnSuccess ==
    /\ [](\A t \in Threads :
            (Returned(t) /\ res[t].op = "exception_handler") =>
                /\ res[t].exc # NoExc =>
                      (res[t].outcome = "raise" /\ res[t].raised # NoRaised)
                /\ res[t].exc = NoExc =>
                      (res[t].outcome = "return" /\ res[t].raised = NoRaised))
    /\ [](\A t \in Threads : pc[t] \in {"ef_emit", "eh_raise"} => loc[t].exc # NoExc)
    /\ [][\A t \in Threads :
            (EndsAtOnce(t) /\ res'[t].exc = NoExc) =>
                (events' = events /\ meta' = meta /\ hasMeta' = hasMeta)]_vars

\* C7 witness: a RefreshError went through emit_failed and left the boundary
C7_Witness ==
    \E t \in Threads :
        /\ FailedInvocation(t) /\ res[t].recovered
        /\ res[t].exc.cls = "RefreshError"
        /\ res[t].outcome = "raise"

\* C8: a dbt RuntimeException (or a subclass) raised inside the boundary
\* leaves it as the very same error, its message unmodified.
C8_DomainErrorReRaisedAsIs ==
    \A t \in Threads :
        (FailedInvocation(t) /\ IsRuntimeException(res[t].exc.cls)) =>
            /\ res[t].outcome = "raise"
            /\ res[t].raised = Raised(res[t].exc.cls, res[t].exc.msg, TRUE)

\* a text without its newlines
RECURSIVE WithoutNL(_)
WithoutNL(s) ==
    IF Len(s) = 0 THEN s
    ELSE IF s[1] = NL THEN WithoutNL(Tail(s))
    ELSE <<s[1]>> \o WithoutNL(Tail(s))

\* the texts of a list one after the other
RECURSIVE Concat(_)
Concat(parts) == IF Len(parts) = 0 THEN <<>> ELSE parts[1] \o Concat(Tail(parts))

\* C9: a BadRequest or Forbidden raised with a resolvable token in the query
\* text reaches the caller as one DatabaseException whose message is the
\* upstream messages in their order, after the FAIL event of the run.
C9_BadRequestBecomesDatabaseException ==
    \A t \in Threads :
        ( /\ FailedInvocation(t) /\ res[t].embedded
          /\ res[t].exc.cls \in {"BadRequest", "Forbidden"} ) =>
            /\ res[t].outcome = "raise"
            /\ res[t].raised.cls = "DatabaseException"
            /\ WithoutNL(res[t].raised.msg) = Concat(res[t].exc.errors)
            /\ res[t].failFirst

\* s is t with its leading and trailing whitespace removed
IsStripOf(s, t) ==
    \E a \in 1..(Len(t) + 1), b \in 0..Len(t) :
        /\ a <= b + 1
        /\ s = SubSeq(t, a, b)
        /\ \A i \in 1..(a - 1) : IsWhite(t[i])
        /\ \A i \in (b + 1)..Len(t) : IsWhite(t[i])
        /\ (s # <<>>) => (~IsWhite(s[1]) /\ ~IsWhite(s[Len(s)]))

\* the RuntimeException the boundary built from an exception of no special
\* class
BuiltRuntimeError(t) ==
    /\ FailedInvocation(t) /\ res[t].recovered
    /\ res[t].exc.cls = "Exception"

\* C10: the RuntimeException built from a message that holds the delimiter
\* holds neither the delimiter nor anything after its first occurrence: it is
\* the text before it, stripped; built from a message without the delimiter,
\* it carries the whole message.
C10_MessageCutAtDelimiter ==
    \A t \in Threads :
        BuiltRuntimeError(t) =>
            LET msg == res[t].exc.msg
                out == res[t].raised.msg
            IN  /\ res[t].raised.cls = "RuntimeException"
                /\ ~Contains(msg, BQ_QUERY_JOB_SPLIT) => out = msg
                /\ Contains(msg, BQ_QUERY_JOB_SPLIT) =>
                      /\ ~Contains(out, BQ_QUERY_JOB_SPLIT)
                      /\ \E k \in 1..Len(msg) :
                            /\ msg[k] = BQ_QUERY_JOB_SPLIT
                            /\ \A j \in 1..(k - 1) : msg[j] # BQ_QUERY_JOB_SPLIT
                            /\ IsStripOf(out, SubSeq(msg, 1, k - 1))

\* C10 witness: a message with text on both sides of the delimiter was cut
C10_Witness ==
    \E t \in Threads :
        /\ BuiltRuntimeError(t)
        /\ res[t].exc.msg = <<"boom", BQ_QUERY_JOB_SPLIT, "boom">>
        /\ res[t].raised.msg = <<"boom">>

\* the positions of a thread inside emit_start, from line 86 on
EsLabels == {"es_hasattr", "es_create", "es_put_model", "es_put_run", "es_emit"}

\* thread t is inside an emit_start call for the model
Beginning(t, unique_id) == pc[t] \in EsLabels /\ loc[t].unique_id = unique_id

\* the START events of a model in the event stream
StartsOf(unique_id) ==
    {i \in 1..Len(events) :
        events[i].eventType = "START" /\ events[i].name = unique_id}

\* C11: once emit_start(model) has returned run id r, and while no other
\* emit_start has been called for the model, the model id and r resolve to
\* the same RunMeta, whose run_id is r and whose name is the model id.
C11_ModelAndRunResolveAlike ==
    \A u \in ModelIds :
        ( /\ Cardinality(StartsOf(u)) = 1
          /\ \A t \in Threads : ~Beginning(t, u) ) =>
            LET r == events[CHOOSE i \in StartsOf(u) : TRUE].runId
            IN  /\ hasMeta
                /\ {u, r} \subseteq DOMAIN meta
                /\ meta[u] = meta[r]
                /\ meta[r].run_id = r
                /\ meta[r].name = u

\* thread t makes a call in this step that goes on to emit a terminal event
ResolvesInStep(t) == Idle(t) /\ pc'[t] \in {"ec_emit", "ef_emit"}

\* thread t makes a call in this step whose lookup is the end of it
LookupEndsStep(t) ==
    /\ Idle(t) /\ pc'[t] = "returned"
    /\ \/ res'[t].op = "emit_complete"
       \/ /\ res'[t].op = "exception_handler"
          /\ res'[t].exc # NoExc /\ IsException(res'[t].exc.cls)

\* C12: the registry never resolves a key to a stale or wrong record: every
\* key maps to a RunMeta whose run_id or name is the key; keys are stored by
\* emit_start only, each with its own record; emit_complete and emit_failed go
\* on to their event only with the record the registry holds for the key they
\* look up; a key that is not in the registry ends the call with the lookup's
\* error and no event.
C12_NoStaleOrWrongRecord ==
    /\ [](\A k \in RegistryKeys : meta[k].run_id = k \/ meta[k].name = k)
    /\ [][\A k \in (IF hasMeta' THEN DOMAIN meta' ELSE {}) :
            (k \notin RegistryKeys \/ meta'[k] # meta[k]) =>
                \E t \in Threads :
                    \/ /\ pc[t] = "es_put_model" /\ k = loc[t].unique_id
                       /\ meta'[k] = RunMeta(loc[t].run_id, loc[t].namespace, k)
                    \/ /\ pc[t] = "es_put_run" /\ k = loc[t].run_id
                       /\ meta'[k] = loc[t].m /\ loc[t].m.run_id = k]_vars
    /\ [][\A t \in Threads :
            ResolvesInStep(t) =>
                /\ loc'[t].key \in RegistryKeys
                /\ loc'[t].m = meta[loc'[t].key]]_vars
    /\ [][\A t \in Threads :
            (LookupEndsStep(t) /\ res'[t].key \notin RegistryKeys) =>
                /\ res'[t].outcome = "raise"
                /\ res'[t].raised.cls \in {"KeyError", "AttributeError"}
                /\ events' = events]_vars
    /\ [][\A t \in Threads :
            (LookupEndsStep(t) /\ res'[t].key \in RegistryKeys) => FALSE]_vars
    /\ [][\A i \in (Len(events) + 1)..Len(events') :
            events'[i].eventType \in {"COMPLETE", "FAIL"} =>
                \E t \in Threads :
                    /\ pc[t] \in {"ec_emit", "ef_emit"}
                    /\ loc[t].m.run_id = loc[t].key \/ loc[t].m.name = loc[t].key
                    /\ events'[i].runId = loc[t].m.run_id
                    /\ events'[i].name = loc[t].m.name]_vars

\* C12 witness: emit_complete looked up a run id that was never registered,
\* in a registry that holds other runs, and raised KeyError
C12_Witness ==
    \E t \in Threads :
        /\ Returned(t) /\ res[t].op = "emit_complete"
        /\ res[t].outcome = "raise" /\ res[t].raised.cls = "KeyError"
        /\ hasMeta /\ DOMAIN meta # {}
        /\ res[t].key \notin DOMAIN meta

\* thread t's last call was emit_start, and the parser had raised in it
ParseFailedIn(t) ==
    Returned(t) /\ res[t].op = "emit_start" /\ res[t].parsed = ParseFailed

LookedUp(t) == res[t].recovered \/ res[t].raised.cls = "KeyError"

\* C14: for a failing invocation whose query text holds a single marker
\* "node_id": "<token>" with a token free of double quotes, the key
\* emit_failed looks up is exactly the token, whatever follows the marker.
C14_KeyIsMarkerToken ==
    \A t \in Threads :
        ( /\ FailedInvocation(t) /\ LookedUp(t)
          /\ res[t].token # NoMatch ) =>
            res[t].key = res[t].token

\* C15: a RefreshError raised with a resolvable token in the query text
\* reaches the caller as a RuntimeException whose message is the impersonation
\* guidance followed by the message of the RefreshError, after the FAIL event
\* of the run.
C15_RefreshErrorCarriesGuidance ==
    \A t \in Threads :
        ( /\ FailedInvocation(t) /\ res[t].embedded
          /\ res[t].exc.cls = "RefreshError" ) =>
            /\ res[t].outcome = "raise"
            /\ res[t].raised.cls = "RuntimeException"
            /\ res[t].raised.msg = <<RefreshGuidance>> \o res[t].exc.msg
            /\ res[t].failFirst

\* the registry is the same before and after the step
RegistryUnchanged == hasMeta' = hasMeta /\ meta' = meta

\* thread t executes a statement of emit_start that writes the registry
RegistersInStep(t) ==
    /\ pc[t] \in {"es_create", "es_put_model", "es_put_run"}
    /\ pc'[t] # pc[t]

\* C16: only emit_start changes the registry: every step of emit_complete,
\* emit_failed and exception_handler leaves it as it was; and no step of any
\* operation removes a RunMeta or changes one: every run id in the registry
\* stays in it with the same RunMeta.
C16_OnlyEmitStartChangesRegistry ==
    /\ [][(\A t \in Threads : ~RegistersInStep(t)) => RegistryUnchanged]_vars
    /\ [][\A k \in RegistryKeys :
            meta[k].run_id = k =>
                /\ hasMeta'
                /\ k \in DOMAIN meta'
                /\ meta'[k] = meta[k]]_vars

C18_StartPrecedesTerminal ==
    \A j \in 1..Len(events) :
        events[j].eventType \in {"COMPLETE", "FAIL"} =>
            \E i \in 1..(j - 1) :
                events[i].eventType = "START" /\ events[i].runId = events[j].runId

\* the run ids of the START events of a model
RunsOf(unique_id) ==
    {events[i].runId : i \in StartsOf(unique_id)}

\* C19: once emit_start has returned r1 and then r2 for the same model, the
\* model id resolves to the RunMeta of r2, and r1 and r2 each to their own; a
\* failing invocation whose query text embeds the model id then emits FAIL
\* with run id r2, and emit_complete(r1) emits COMPLETE for r1.
C19_LatestRunWinsModelKey ==
    \A u \in ModelIds :
        ( /\ RunsOf(u) = {RunIdOf(1), RunIdOf(2)}
          /\ \A t \in Threads : ~Beginning(t, u) ) =>
            LET r1 == RunIdOf(1)
                r2 == RunIdOf(2)
            IN  /\ hasMeta
                /\ {u, r1, r2} \subseteq DOMAIN meta
                /\ meta[u] = meta[r2]
                /\ meta[r1].run_id = r1 /\ meta[r1].name = u
                /\ meta[r2].run_id = r2 /\ meta[r2].name = u
                /\ \A t \in Threads :
                      /\ ( /\ FailedInvocation(t) /\ IsException(res[t].exc.cls)
                           /\ res[t].token = u ) =>
                              /\ res[t].recovered
                              /\ res[t].m.run_id = r2
                              /\ res[t].failFirst
                      /\ ( /\ Returned(t) /\ res[t].op = "emit_complete"
                           /\ res[t].key = r1 ) =>
                              /\ res[t].outcome = "return"
                              /\ CountEvents("COMPLETE", r1) >= 1

====
